---- MODULE Spec2Model ----
(***************************************************************************)
(* gorapid: an OAuth2 client library (src/rapid.go).  One RapidClient      *)
(* holds its configuration and at most one Token; GenerateToken and        *)
(* RefreshToken exchange credentials at BaseURL + "/token"; Request makes  *)
(* sure a valid token is held and then sends the target HTTP request.      *)
(*                                                                         *)
(* Time is a clock counted in whole seconds.  A lifetime is a Go int of 64  *)
(* bits and an expiry a time.Time: they are written in limbs of 10^9, so   *)
(* that the int64 arithmetic of time.Duration is done at its width.  The   *)
(* network (authorization server, resource server, transport) is the       *)
(* environment: each network call draws its outcome and its duration from  *)
(* a bounded set.  The operating system the program is built for is part   *)
(* of the initial state.  Strings that the code takes apart (URLs, paths)  *)
(* are sequences of chunks:                                                *)
(*   "H"  a scheme and authority such as http://api.example.com            *)
(*   "/"  a path separator          "w", "token"  path segments            *)
(*   "%"  an invalid percent escape such as %zz (url.Parse rejects it)     *)
(*   "?"  the query separator       "q=1"  an encoded query                *)
(*   "\\" a backslash                "%5C"  its percent escape in a URL     *)
(***************************************************************************)
EXTENDS Integers, Sequences, FiniteSets, TLC

VARIABLES
    client,     \* the *RapidClient the caller holds, Nil before construction
    createdAt,  \* history: the clock when client.Token was constructed
    now,        \* the wall clock, in seconds
    last,       \* the last operation called: its name, the network calls it
                \* issued in order, and what it returned
    running,    \* for each goroutine, the Request call it is in and how far
                \* that call has come (idle between calls)
    goos        \* the operating system the program was built for

vars == <<client, createdAt, now, last, running, goos>>

----------------------------------------------------------------------------
\* Bounds of the model

MaxTime == 3
MaxLifetime == 1
MaxDelay == 1

Lifetimes == -1..MaxLifetime
Delays == 0..MaxDelay

----------------------------------------------------------------------------
\* Values

Nil == [nil |-> TRUE]

tokenEndpoint == <<"/", "token">>
clientCredentialsGrant == "client_credentials"
jwtBearerGrant == "urn:ietf:params:oauth:grant-type:jwt-bearer"
contentTypeJSON == "application/json"
contentTypeURLEncoded == "application/x-www-form-urlencoded"

StatusOK == 200

----------------------------------------------------------------------------
\* Numbers of 64 bits, in limbs of 10^9

\* time.Second, in nanoseconds
Giga == 1000000000

\* the Go int n, a count of seconds: giga * 10^9 + unit, 0 <= unit < 10^9
Wide(n) == [giga |-> n \div Giga, unit |-> n % Giga]

\* a count of nanoseconds, a time.Duration or the time.Time that lies so
\* long after the start of the clock:
\* giga * 10^18 + unit * 10^9 + nano, 0 <= unit, nano < 10^9
Norm(g, u, n) ==
    [giga |-> g + (u + n \div Giga) \div Giga, unit |-> (u + n \div Giga) % Giga,
     nano |-> n % Giga]

Add(a, b) == Norm(a.giga + b.giga, a.unit + b.unit, a.nano + b.nano)
Neg(a) == Norm(-a.giga, -a.unit, -a.nano)
Less(a, b) ==
    \/ a.giga < b.giga
    \/ a.giga = b.giga /\ a.unit < b.unit
    \/ a.giga = b.giga /\ a.unit = b.unit /\ a.nano < b.nano

\* the instant at which the clock reads t seconds
At(t) == Norm(0, t, 0)

\* 2^63 = 9223372036854775808 and 2^64 = 18446744073709551616
TwoTo63 == [giga |-> 9, unit |-> 223372036, nano |-> 854775808]
TwoTo64 == [giga |-> 18, unit |-> 446744073, nano |-> 709551616]

RECURSIVE WrapInt64(_)
\* the int64 that holds the low 64 bits of d
WrapInt64(d) ==
    IF ~Less(d, TwoTo63) THEN WrapInt64(Add(d, Neg(TwoTo64)))
    ELSE IF Less(d, Neg(TwoTo63)) THEN WrapInt64(Add(d, TwoTo64))
    ELSE d

\* time.Duration(expiresIn) * time.Second: the product in int64
DurationOfSeconds(expiresIn) ==
    WrapInt64([giga |-> expiresIn.giga, unit |-> expiresIn.unit, nano |-> 0])

\* time.Time{}, the ExpireTime of a Token nothing has set yet: the year 1,
\* some 64 * 10^9 seconds before the clock starts
ZeroTime == [giga |-> -64, unit |-> 0, nano |-> 0]

\* errors: a sentinel, a leaf error of the standard library, or fmt.Errorf
\* with %w around another error
ErrInvalidConfig == [kind |-> "sentinel", name |-> "ErrInvalidConfig"]
ErrTokenGeneration == [kind |-> "sentinel", name |-> "ErrTokenGeneration"]
ErrUnexpectedStatus == [kind |-> "sentinel", name |-> "ErrUnexpectedStatus"]

Leaf(msg) == [kind |-> "leaf", name |-> msg]
Wrap(msg, inner) == [kind |-> "wrap", name |-> msg, inner |-> inner]

RECURSIVE ErrorsIs(_, _)
\* errors.Is(err, target) for a sentinel target
ErrorsIs(err, target) ==
    IF err = Nil THEN FALSE
    ELSE IF err.kind = "wrap" THEN ErrorsIs(err.inner, target)
    ELSE err = target

----------------------------------------------------------------------------
\* Strings as sequences of chunks

Range(s) == {s[i] : i \in 1..Len(s)}

RECURSIVE TrimRight(_, _)
\* strings.TrimRight(s, cut)
TrimRight(s, cut) ==
    IF s # <<>> /\ s[Len(s)] = cut THEN TrimRight(SubSeq(s, 1, Len(s) - 1), cut)
    ELSE s

\* url.Parse succeeds
UrlParses(s) == "%" \notin Range(s)

\* url.Parse on a string that parses: authority and path
UrlParse(s) ==
    IF s # <<>> /\ s[1] = "H" THEN [Host |-> <<"H">>, Path |-> Tail(s), RawQuery |-> <<>>]
    ELSE [Host |-> <<>>, Path |-> s, RawQuery |-> <<>>]

\* the builds of the program: path/filepath takes its separator from the
\* operating system
Platforms == {"linux", "windows"}

\* filepath.Separator
Separator == IF goos = "windows" THEN "\\" ELSE "/"

\* os.IsPathSeparator
IsPathSeparator(c) == c = Separator \/ (goos = "windows" /\ c = "/")

\* filepath.FromSlash on one chunk
FromSlash(c) == IF c = "/" THEN Separator ELSE c

RECURSIVE Clean(_)
\* filepath.Clean on paths without dot segments and volume names:
\* repeated separators collapse, a trailing separator goes, except for the
\* root, and every separator becomes that of the platform
Clean(p) ==
    IF Len(p) >= 2 /\ IsPathSeparator(p[1]) /\ IsPathSeparator(p[2]) THEN Clean(Tail(p))
    ELSE IF Len(p) >= 2 /\ IsPathSeparator(p[Len(p)]) THEN Clean(SubSeq(p, 1, Len(p) - 1))
    ELSE IF Len(p) >= 2 THEN <<FromSlash(Head(p))>> \o Clean(Tail(p))
    ELSE IF Len(p) = 1 THEN <<FromSlash(p[1])>>
    ELSE p

\* filepath.Join(a, b): empty elements are ignored, the rest joined with
\* the separator of the platform and cleaned
Join(a, b) ==
    IF a = <<>> /\ b = <<>> THEN <<>>
    ELSE IF a = <<>> THEN Clean(b)
    ELSE IF b = <<>> THEN Clean(a)
    ELSE Clean(a \o <<Separator>> \o b)

\* (*url.URL).EscapedPath(): a backslash is not allowed in a path and is
\* percent-encoded
EscapedPath(p) == [i \in 1..Len(p) |-> IF p[i] = "\\" THEN "%5C" ELSE p[i]]

\* (*url.URL).String()
UrlString(u) ==
    u.Host
    \o (IF u.Host # <<>> /\ u.Path # <<>> /\ EscapedPath(u.Path)[1] # "/" THEN <<"/">>
        ELSE <<>>)
    \o EscapedPath(u.Path)
    \o (IF u.RawQuery # <<>> THEN <<"?">> \o u.RawQuery ELSE <<>>)

\* http.NewRequest succeeds: a valid method and a URL that parses
ValidMethod(method) == method \in {"GET", "POST", "PUT", "DELETE"}
NewRequestOK(method, url) == ValidMethod(method) /\ UrlParses(url)

----------------------------------------------------------------------------
\* Token

\* time.Now().Add(time.Duration(expiresIn) * time.Second)
ExpireTimeOf(t, expiresIn) == Add(At(t), DurationOfSeconds(expiresIn))

NewToken(value, expiresIn, tokenType, refreshToken, t) ==
    [Value |-> value, ExpiresIn |-> expiresIn, TokenType |-> tokenType,
     RefreshToken |-> refreshToken, ExpireTime |-> ExpireTimeOf(t, expiresIn)]

\* variant: the header always announces a Bearer token
GetAuthorizationHeaderBearer(tok) == <<"Bearer", " ", tok.Value>>

\* fmt.Sprintf("%s %s", t.TokenType, t.Value)
GetAuthorizationHeader(tok) == <<tok.TokenType, " ", tok.Value>>

\* variant: the instant of expiry still counts as valid
IsValidAtExpiry(tok, t) == ~Less(tok.ExpireTime, At(t))

\* time.Now().Before(t.ExpireTime)
IsValid(tok, t) == Less(At(t), tok.ExpireTime)

----------------------------------------------------------------------------
\* The environment: what the caller passes in and what the network answers

RefreshValues == {"", "R1"}

\* lifetimes beyond what a time.Duration holds, 9223372037 and -9223372037
\* seconds (builds whose int has 64 bits)
HugeLifetimes == {[giga |-> 9, unit |-> 223372037], [giga |-> -10, unit |-> 776627963]}

\* the lifetimes NewToken is called with
NewTokenLifetimes == {Wide(e) : e \in Lifetimes} \cup HugeLifetimes

\* RAPID_BASE_URL, RAPID_KEY, RAPID_SECRET, RAPID_USER_WEB_TOKEN
EnvBaseURLs == {<<>>, <<"H">>, <<"H", "/">>, <<"H", "%">>}
EnvKeys == {"", "id"}
EnvSecrets == {"", "secret"}
EnvUserWebTokens == {"", "jwt"}

\* bodies the token endpoint may answer with: no JSON at all, or a JSON
\* object with or without the optional refresh_token member
TokenObjects ==
    {[access_token |-> "T1", expires_in |-> Wide(e), token_type |-> "Bearer",
      refresh_token |-> "R1"] : e \in Lifetimes}
    \cup {[access_token |-> "T2", expires_in |-> Wide(MaxLifetime), token_type |-> "MAC"]}
NotJSON == [json |-> FALSE, obj |-> Nil]
TokenBodies == {[json |-> TRUE, obj |-> o] : o \in TokenObjects}

\* what happens to one call of the token endpoint: the transport fails, or
\* the server answers
TransportError == [kind |-> "transport", status |-> 0, body |-> NotJSON, delay |-> 0]

TokenOutcomes ==
    {TransportError}
    \cup {[kind |-> "response", status |-> 401, body |-> NotJSON, delay |-> 0]}
    \cup {[kind |-> "response", status |-> 201, delay |-> 0,
            body |-> [json |-> TRUE,
                      obj |-> [access_token |-> "T1", expires_in |-> Wide(MaxLifetime),
                               token_type |-> "Bearer", refresh_token |-> "R1"]]]}
    \cup {[kind |-> "response", status |-> StatusOK, body |-> NotJSON, delay |-> 0]}
    \cup {[kind |-> "response", status |-> StatusOK, body |-> b, delay |-> d] :
            b \in TokenBodies, d \in Delays}

----------------------------------------------------------------------------
\* Client construction

\* variant: the configuration is refused only when all three are missing
ConfigMissingAll(baseURL, key, secret) == baseURL = <<>> /\ key = "" /\ secret = ""

ConfigMissing(baseURL, key, secret) == baseURL = <<>> \/ key = "" \/ secret = ""

\* NewRapidClient: (client, err)
NewRapidClientResult(baseURL, key, secret, userWebToken) ==
    IF ConfigMissing(baseURL, key, secret)
    THEN [ret |-> Nil, err |-> ErrInvalidConfig]
    ELSE [ret |-> [BaseURL |-> TrimRight(baseURL, "/"), Key |-> key, Secret |-> secret,
                   UserWebToken |-> userWebToken, Token |-> Nil, XAuthorization |-> ""],
          err |-> Nil]

----------------------------------------------------------------------------
\* Credential exchange

\* variant: a held refresh value is used whether or not refresh was asked for
IsRefreshGrantWheneverHeld(c, isRefresh) ==
    c.Token # Nil /\ c.Token.RefreshToken # ""

IsRefreshGrant(c, isRefresh) ==
    isRefresh /\ c.Token # Nil /\ c.Token.RefreshToken # ""

\* variant: a configured assertion takes precedence over the refresh value
generateParametersAssertionFirst(c, isRefresh) ==
    IF c.UserWebToken # ""
    THEN [grant_type |-> jwtBearerGrant, assertion |-> c.UserWebToken]
    ELSE IF IsRefreshGrant(c, isRefresh)
    THEN [grant_type |-> "refresh_token", refresh_token |-> c.Token.RefreshToken]
    ELSE [grant_type |-> clientCredentialsGrant, scope |-> "am_application_scope,default"]

generateParameters(c, isRefresh) ==
    IF IsRefreshGrant(c, isRefresh)
    THEN [grant_type |-> "refresh_token", refresh_token |-> c.Token.RefreshToken]
    ELSE IF c.UserWebToken # ""
    THEN [grant_type |-> jwtBearerGrant, assertion |-> c.UserWebToken]
    ELSE [grant_type |-> clientCredentialsGrant, scope |-> "am_application_scope,default"]

\* the request generateOrRefreshToken hands to the transport
TokenRequest(c, params) ==
    [to |-> "token", method |-> "POST", url |-> c.BaseURL \o tokenEndpoint,
     headers |-> [ContentType |-> contentTypeURLEncoded,
                  Authorization |-> <<"Basic", c.Key, ":", c.Secret>>],
     body |-> params]

\* variant: any 2xx status is taken as success
AcceptedStatusAny2xx(status) == status >= 200 /\ status < 300

AcceptedStatus(status) == status = StatusOK

Member(obj, name, zero) == IF name \in DOMAIN obj THEN obj[name] ELSE zero

\* json Decode into a zero Token: absent members keep their zero value
DecodeToken(obj) ==
    [Value |-> Member(obj, "access_token", ""), ExpiresIn |-> Member(obj, "expires_in", Wide(0)),
     TokenType |-> Member(obj, "token_type", ""),
     RefreshToken |-> Member(obj, "refresh_token", ""), ExpireTime |-> ZeroTime]

\* variant: the expiry is left as decoded
ParsedTokenExpiryUnset(obj, t) == DecodeToken(obj)

\* the token held after a successful exchange that ended at time t
ParsedToken(obj, t) ==
    [DecodeToken(obj) EXCEPT !.ExpireTime = ExpireTimeOf(t, DecodeToken(obj).ExpiresIn)]

\* one entry of the log of network calls: the request and its answer
Call(req, o) ==
    [to |-> req.to, method |-> req.method, url |-> req.url, headers |-> req.headers,
     body |-> req.body, answer |-> o]

\* the errors generateOrRefreshToken returns
ConstructFailure == Wrap("NewRequest", ErrTokenGeneration)
\* variant: the error of the transport is returned as it is
TransportFailureUnwrapped == Leaf("Do")
TransportFailure == Wrap("Do", ErrTokenGeneration)
StatusFailure == Wrap("status", ErrUnexpectedStatus)
DecodeFailure == Wrap("Decode", ErrTokenGeneration)

\* variant: the new token takes over the refresh value of the token held
\* before when it has none of its own
StoreTokenKeepingRefresh(c, tok) ==
    [c EXCEPT !.Token =
        IF tok.RefreshToken = "" /\ c.Token # Nil
        THEN [tok EXCEPT !.RefreshToken = c.Token.RefreshToken] ELSE tok]

\* variant: a token that is already held is not overwritten
StoreTokenUnlessHeld(c, tok) == IF c.Token # Nil THEN c ELSE [c EXCEPT !.Token = tok]

\* c.Token = &token
StoreToken(c, tok) == [c EXCEPT !.Token = tok]

\* variant: a call the transport failed is sent a second time
generateOrRefreshTokenRetrying(c, isRefresh, t, o) ==
    LET req == TokenRequest(c, generateParameters(c, isRefresh))
        end == t + o.delay
    IN  IF ~NewRequestOK(req.method, req.url)
        THEN [c |-> c, calls |-> <<>>, t |-> t, err |-> ConstructFailure]
        ELSE IF o.kind = "transport"
        THEN [c |-> c, calls |-> <<Call(req, o), Call(req, o)>>, t |-> end,
              err |-> TransportFailure]
        ELSE IF ~AcceptedStatus(o.status)
        THEN [c |-> c, calls |-> <<Call(req, o)>>, t |-> end, err |-> StatusFailure]
        ELSE IF ~o.body.json
        THEN [c |-> c, calls |-> <<Call(req, o)>>, t |-> end, err |-> DecodeFailure]
        ELSE [c |-> StoreToken(c, ParsedToken(o.body.obj, end)),
              calls |-> <<Call(req, o)>>, t |-> end, err |-> Nil]

\* generateOrRefreshToken, called at time t, the network answering o:
\* the client afterwards, the calls issued, the error returned, the time
\* at return
generateOrRefreshToken(c, isRefresh, t, o) ==
    LET req == TokenRequest(c, generateParameters(c, isRefresh))
        end == t + o.delay
    IN  IF ~NewRequestOK(req.method, req.url)
        THEN [c |-> c, calls |-> <<>>, t |-> t, err |-> ConstructFailure]
        ELSE IF o.kind = "transport"
        THEN [c |-> c, calls |-> <<Call(req, o)>>, t |-> end, err |-> TransportFailure]
        ELSE IF ~AcceptedStatus(o.status)
        THEN [c |-> c, calls |-> <<Call(req, o)>>, t |-> end, err |-> StatusFailure]
        ELSE IF ~o.body.json
        THEN [c |-> c, calls |-> <<Call(req, o)>>, t |-> end, err |-> DecodeFailure]
        ELSE [c |-> StoreToken(c, ParsedToken(o.body.obj, end)),
              calls |-> <<Call(req, o)>>, t |-> end, err |-> Nil]

GenerateTokenResult(c, t, o) == generateOrRefreshToken(c, FALSE, t, o)

RefreshTokenResult(c, t, o) == generateOrRefreshToken(c, TRUE, t, o)

\* variant: only an absent token is replaced, an expired one is kept
NeedsTokenIgnoringExpiry(c, t) == c.Token = Nil

\* variant: a new token is asked for on every call
NeedsTokenAlways(c, t) == TRUE

NeedsToken(c, t) == ~(c.Token # Nil /\ IsValid(c.Token, t))

\* variant: an unusable token is renewed through the refresh path
ensureValidTokenByRefresh(c, t, o) ==
    IF ~NeedsToken(c, t)
    THEN [c |-> c, calls |-> <<>>, t |-> t, err |-> Nil]
    ELSE RefreshTokenResult(c, t, o)

\* variant: a token that fails the check is dropped before a new one is
\* asked for
ensureValidTokenDroppingExpired(c, t, o) ==
    IF ~NeedsToken(c, t)
    THEN [c |-> c, calls |-> <<>>, t |-> t, err |-> Nil]
    ELSE GenerateTokenResult([c EXCEPT !.Token = Nil], t, o)

ensureValidToken(c, t, o) ==
    IF ~NeedsToken(c, t)
    THEN [c |-> c, calls |-> <<>>, t |-> t, err |-> Nil]
    ELSE GenerateTokenResult(c, t, o)

----------------------------------------------------------------------------
\* Request

\* request bodies: none, a value with its own RapidJson, a value left to
\* json.Marshal; either serialization may fail
Bytes(b) == [ok |-> TRUE, bytes |-> b]
MarshalError == [ok |-> FALSE, bytes |-> ""]

CustomBody == [custom |-> TRUE, RapidJson |-> Bytes("rapid"), Marshal |-> Bytes("std")]
PlainBody == [custom |-> FALSE, RapidJson |-> MarshalError, Marshal |-> Bytes("std")]
BadCustomBody == [custom |-> TRUE, RapidJson |-> MarshalError, Marshal |-> Bytes("std")]
BadPlainBody == [custom |-> FALSE, RapidJson |-> MarshalError, Marshal |-> MarshalError]

NoParams == <<>>
SomeParams == <<"q=1">>

\* the calls of Request the model makes
RequestInputs ==
    {[method |-> "GET", urlPath |-> <<"/", "w">>, body |-> Nil, params |-> NoParams],
     [method |-> "POST", urlPath |-> <<"w">>, body |-> PlainBody, params |-> SomeParams],
     [method |-> "PUT", urlPath |-> <<"/", "w">>, body |-> BadPlainBody, params |-> NoParams],
     [method |-> "B D", urlPath |-> <<"/", "w">>, body |-> Nil, params |-> NoParams]}

\* what happens to the target request: the transport fails, or the
\* resource server answers
SendOutcomes ==
    {TransportError}
    \cup {[kind |-> "response", status |-> 200, body |-> [json |-> TRUE, obj |-> Nil],
            delay |-> MaxDelay]}
    \cup {[kind |-> "response", status |-> 500, body |-> NotJSON, delay |-> 0]}

Serialize(body) == IF body.custom THEN body.RapidJson ELSE body.Marshal

SetHeader(h, k, v) == [x \in DOMAIN h \cup {k} |-> IF x = k THEN v ELSE h[x]]

NoHeaders == [x \in {} |-> ""]

\* variant: Content-Type is set whether or not a body was given
RequestHeadersAlwaysContentType(c, body) ==
    LET h1 == SetHeader(NoHeaders, "Accept", contentTypeJSON)
        h2 == IF c.XAuthorization # "" THEN SetHeader(h1, "X-Authorization", c.XAuthorization)
              ELSE h1
        h3 == SetHeader(h2, "Authorization", GetAuthorizationHeader(c.Token))
    IN  SetHeader(h3, "Content-Type", contentTypeJSON)

\* the headers Request sets, in its order
RequestHeaders(c, body) ==
    LET h1 == SetHeader(NoHeaders, "Accept", contentTypeJSON)
        h2 == IF c.XAuthorization # "" THEN SetHeader(h1, "X-Authorization", c.XAuthorization)
              ELSE h1
        h3 == SetHeader(h2, "Authorization", GetAuthorizationHeader(c.Token))
    IN  IF body # Nil THEN SetHeader(h3, "Content-Type", contentTypeJSON) ELSE h3

\* the URL Request resolves
TargetURL(c, urlPath, params) ==
    LET u == UrlParse(c.BaseURL)
    IN  [u EXCEPT !.Path = Join(u.Path, urlPath),
                  !.RawQuery = IF Len(params) > 0 THEN params ELSE u.RawQuery]

\* variant: an error status of the server is recorded in the Response
NewResponseFlaggingStatus(so, err, url) ==
    [Body |-> so.body, Status |-> so.status, Headers |-> "server-headers",
     Error |-> IF so.status >= 400 THEN Leaf("status") ELSE err,
     ResponseTime |-> so.delay, RequestURL |-> url]

\* the Response Request builds from the answer of the transport
NewResponse(so, err, url) ==
    [Body |-> so.body, Status |-> so.status, Headers |-> "server-headers",
     Error |-> err, ResponseTime |-> so.delay, RequestURL |-> url]

\* Request(method, urlPath, body, params) once its ensure-valid-token step
\* has ended as ev, the target answering so (when asked)
RequestAfterEnsure(ev, in, so) ==
    LET c1 == ev.c
        failed(calls, tt, err) ==
            [c |-> c1, calls |-> calls, t |-> tt, ret |-> Nil, err |-> err, ev |-> ev]
    IN  IF ev.err # Nil
        THEN failed(ev.calls, ev.t, Wrap("error ensuring valid token", ev.err))
        ELSE IF ~UrlParses(c1.BaseURL)
        THEN failed(ev.calls, ev.t, Wrap("error parsing base URL", Leaf("url.Parse")))
        ELSE IF in.body # Nil /\ ~Serialize(in.body).ok
        THEN failed(ev.calls, ev.t, Wrap("error marshaling request body", Leaf("marshal")))
        ELSE LET url == UrlString(TargetURL(c1, in.urlPath, in.params))
                 reqBody == IF in.body # Nil THEN Serialize(in.body) ELSE Nil
             IN  IF ~NewRequestOK(in.method, url)
                 THEN failed(ev.calls, ev.t,
                             Wrap("error creating request", Leaf("http.NewRequest")))
                 ELSE LET req == [to |-> "target", method |-> in.method, url |-> url,
                                  headers |-> RequestHeaders(c1, in.body), body |-> reqBody]
                          calls == Append(ev.calls, Call(req, so))
                          err == IF so.kind = "transport" THEN Leaf("Do") ELSE Nil
                      IN  IF err # Nil
                          THEN failed(calls, ev.t + so.delay,
                                      Wrap("error sending request", err))
                          ELSE [c |-> c1, calls |-> calls, t |-> ev.t + so.delay,
                                ret |-> NewResponse(so, err, url), err |-> Nil, ev |-> ev]

----------------------------------------------------------------------------
\* The state machine

NoArgs == [none |-> TRUE]

\* the goroutines that call the client
Goroutines == {"g1", "g2"}

\* a goroutine that is in no call; in a call, the frame holds the
\* arguments, the network calls issued so far, while the token request is
\* with the transport, start: the time it was started, and once the target
\* request is with the transport, sent: the client as the call read it
\* when it built the request, and the time it started the request
Idle == [pc |-> "idle", in |-> NoArgs, calls |-> <<>>, start |-> 0, sent |-> Nil]

Init ==
    /\ client = Nil
    /\ createdAt = 0
    /\ now = 0
    /\ last = [op |-> "init", args |-> NoArgs, calls |-> <<>>, ret |-> Nil, err |-> Nil]
    /\ running = [g \in Goroutines |-> Idle]
    /\ goos = "linux"

\* the caller reads the environment and constructs the client
NewRapidClient ==
    /\ client = Nil
    /\ \E baseURL \in EnvBaseURLs, key \in EnvKeys, secret \in EnvSecrets,
          userWebToken \in EnvUserWebTokens :
        LET res == NewRapidClientResult(baseURL, key, secret, userWebToken)
        IN  /\ client' = res.ret
            /\ last' = [op |-> "NewRapidClient",
                        args |-> [baseURL |-> baseURL, key |-> key, secret |-> secret,
                                  userWebToken |-> userWebToken],
                        calls |-> <<>>, ret |-> res.ret, err |-> res.err]
    /\ UNCHANGED <<createdAt, now, running, goos>>

\* the caller installs a token it constructed with NewToken
SetNewToken ==
    /\ client # Nil
    /\ \E value \in {"T0"}, expiresIn \in NewTokenLifetimes, refreshToken \in RefreshValues :
        /\ client' = [client EXCEPT
                        !.Token = NewToken(value, expiresIn, "Bearer", refreshToken, now)]
        /\ last' = [op |-> "NewToken",
                    args |-> [value |-> value, expiresIn |-> expiresIn,
                              refreshToken |-> refreshToken],
                    calls |-> <<>>, ret |-> client'.Token, err |-> Nil]
    /\ createdAt' = now
    /\ UNCHANGED <<now, running, goos>>

\* one credential exchange: GenerateToken or RefreshToken
Exchange(op, res) ==
    /\ res.t <= MaxTime
    /\ client' = res.c
    /\ createdAt' = IF res.err = Nil THEN res.t ELSE createdAt
    /\ now' = res.t
    /\ last' = [op |-> op, args |-> NoArgs, calls |-> res.calls, ret |-> Nil, err |-> res.err]
    /\ UNCHANGED <<running, goos>>

\* the outcome of a network call is drawn only when the call is issued
Issued(res, to) == \E i \in 1..Len(res.calls) : res.calls[i].to = to

GenerateToken ==
    /\ client # Nil
    /\ \E o \in IF Issued(GenerateTokenResult(client, now, TransportError), "token")
                THEN TokenOutcomes ELSE {TransportError} :
       \E res \in {GenerateTokenResult(client, now, o)} : Exchange("GenerateToken", res)

RefreshToken ==
    /\ client # Nil
    /\ \E o \in IF Issued(RefreshTokenResult(client, now, TransportError), "token")
                THEN TokenOutcomes ELSE {TransportError} :
       \E res \in {RefreshTokenResult(client, now, o)} : Exchange("RefreshToken", res)

\* variant: a dispatch that fails leaves the client as it found it
DispatchRollingBack(op, in) ==
    \E o \in IF Issued(ensureValidToken(client, now, TransportError), "token")
             THEN TokenOutcomes ELSE {TransportError} :
    \E ev \in {ensureValidToken(client, now, o)} :
    \E so \in IF Issued(RequestAfterEnsure(ev, in, TransportError), "target")
              THEN SendOutcomes ELSE {TransportError} :
    \E res \in {RequestAfterEnsure(ev, in, so)} :
        /\ res.t <= MaxTime
        /\ client' = IF res.err # Nil THEN client ELSE res.c
        /\ createdAt' = IF res.ev.calls # <<>> /\ res.err = Nil THEN res.ev.t
                        ELSE createdAt
        /\ now' = res.t
        /\ last' = [op |-> op, args |-> in, calls |-> res.calls, ret |-> res.ret,
                    err |-> res.err]
        /\ UNCHANGED <<running, goos>>

\* one dispatch, Request or one of its wrappers, called at time now:
\* ensureValidToken, the token endpoint answering o when asked, then the
\* rest of Request, the target answering so when asked
Dispatch(op, in) ==
    \E o \in IF Issued(ensureValidToken(client, now, TransportError), "token")
             THEN TokenOutcomes ELSE {TransportError} :
    \E ev \in {ensureValidToken(client, now, o)} :
    \E so \in IF Issued(RequestAfterEnsure(ev, in, TransportError), "target")
              THEN SendOutcomes ELSE {TransportError} :
    \E res \in {RequestAfterEnsure(ev, in, so)} :
        /\ res.t <= MaxTime
        /\ client' = res.c
        /\ createdAt' = IF res.ev.calls # <<>> /\ res.ev.err = Nil THEN res.ev.t
                        ELSE createdAt
        /\ now' = res.t
        /\ last' = [op |-> op, args |-> in, calls |-> res.calls, ret |-> res.ret,
                    err |-> res.err]
        /\ UNCHANGED <<running, goos>>

\* the five methods below are called on a constructed client
Request ==
    /\ client # Nil
    /\ \E in \in RequestInputs : Dispatch("Request", in)

Get ==
    /\ client # Nil
    /\ \E urlPath \in {<<"w">>} :
        Dispatch("Get", [method |-> "GET", urlPath |-> urlPath, body |-> Nil,
                         params |-> SomeParams])

Post ==
    /\ client # Nil
    /\ \E body \in {CustomBody} :
        Dispatch("Post", [method |-> "POST", urlPath |-> <<"w">>, body |-> body,
                          params |-> NoParams])

Put ==
    /\ client # Nil
    /\ \E body \in {BadCustomBody} :
        Dispatch("Put", [method |-> "PUT", urlPath |-> <<"/", "w">>, body |-> body,
                         params |-> NoParams])

Delete ==
    /\ client # Nil
    /\ \E urlPath \in {<<"/", "w">>} :
        Dispatch("Delete", [method |-> "DELETE", urlPath |-> urlPath, body |-> Nil,
                            params |-> NoParams])

\* time passes between two calls
Tick ==
    /\ now < MaxTime
    /\ now' = now + 1
    /\ last' = [op |-> "Tick", args |-> NoArgs, calls |-> <<>>, ret |-> Nil, err |-> Nil]
    /\ UNCHANGED <<client, createdAt, running, goos>>

Next ==
    \/ NewRapidClient
    \/ SetNewToken
    \/ GenerateToken
    \/ RefreshToken
    \/ Request
    \/ Get
    \/ Post
    \/ Put
    \/ Delete
    \/ Tick

Spec == Init /\ [][Next]_vars

----------------------------------------------------------------------------
\* Dispatch on a client as its caller configured it: built for either
\* platform, constructed from a base URL with or without a path and
\* trailing slashes, the exported field XAuthorization set or left empty

DispatchBaseURLs ==
    {<<"H">>, <<"H", "/">>, <<"H", "/", "/">>, <<"H", "/", "api">>, <<"H", "/", "api", "/">>}
ExtraAuthorizations == {"", "x-auth"}

InitDispatch ==
    /\ \E baseURL \in DispatchBaseURLs, xAuthorization \in ExtraAuthorizations :
        /\ client = [NewRapidClientResult(baseURL, "id", "secret", "").ret
                        EXCEPT !.XAuthorization = xAuthorization]
        /\ last = [op |-> "configure",
                   args |-> [baseURL |-> baseURL, xAuthorization |-> xAuthorization],
                   calls |-> <<>>, ret |-> Nil, err |-> Nil]
    /\ createdAt = 0
    /\ now = 0
    /\ running = [g \in Goroutines |-> Idle]
    /\ goos \in Platforms

NextDispatch ==
    \/ Request
    \/ Get
    \/ Post
    \/ Put
    \/ Delete
    \/ Tick

SpecDispatch == InitDispatch /\ [][NextDispatch]_vars

----------------------------------------------------------------------------
\* Two goroutines calling Request on one client.  The client has no lock:
\* a call is a sequence of steps, and the steps of the two calls interleave
\* in any order.  Each step below holds at most one access to the shared
\* field c.Token, together with local work and reads of the configuration,
\* which nothing writes.  The two reads of c.Token in the check of
\* ensureValidToken are one step: a token once held is never removed, so
\* the check has the outcome of a check made at the second read.  A
\* request handed to the transport is in flight until a later step of its
\* goroutine receives the answer: the steps of the other goroutine fall
\* inside the wait for the token endpoint and inside the wait for the
\* target, the latter after the read of c.Token for the header.

\* the clock of the concurrent calls stops here
MaxOverlapTime == 2

ConcurrentInputs ==
    {[method |-> "GET", urlPath |-> <<"/", "w">>, body |-> Nil, params |-> NoParams]}

InitConcurrent ==
    /\ client = NewRapidClientResult(<<"H">>, "id", "secret", "").ret
    /\ createdAt = 0
    /\ now = 0
    /\ last = [op |-> "configure", args |-> NoArgs, calls |-> <<>>, ret |-> Nil, err |-> Nil]
    /\ running = [g \in Goroutines |-> Idle]
    /\ goos = "linux"

\* the call has returned ret, err after the network calls in calls
Return(g, in, res) ==
    /\ res.t <= MaxOverlapTime
    /\ now' = res.t
    /\ last' = [op |-> "Request", args |-> in, calls |-> res.calls, ret |-> res.ret,
                err |-> res.err]
    /\ running' = [running EXCEPT ![g] = Idle]

\* g calls Request, and ensureValidToken reads c.Token and tests it
Check(g) ==
    /\ running[g].pc = "idle"
    /\ \E in \in ConcurrentInputs :
        running' = [running EXCEPT ![g] =
            [pc |-> IF NeedsToken(client, now) THEN "exchange" ELSE "build",
             in |-> in, calls |-> <<>>, start |-> 0, sent |-> Nil]]
    /\ UNCHANGED <<client, createdAt, now, last, goos>>

\* generateOrRefreshToken from the parameters to the start of the token
\* request: the request is built from the configuration and handed to the
\* transport; when it cannot be built Request returns
TokenSend(g) ==
    /\ running[g].pc = "exchange"
    /\ \E ev \in {GenerateTokenResult(client, now, TransportError)} :
            IF Issued(ev, "token")
            THEN /\ running' = [running EXCEPT ![g].pc = "token", ![g].start = now]
                 /\ UNCHANGED <<now, last>>
            ELSE Return(g, running[g].in,
                        RequestAfterEnsure(ev, running[g].in, TransportError))
    /\ UNCHANGED <<client, createdAt, goos>>

\* the larger of a and b
Max(a, b) == IF a >= b THEN a ELSE b

\* HTTPClient.Do returns from the token endpoint with the outcome o, and
\* the status is tested and the body decoded: on a failure Request
\* returns.  Other goroutines have run since the request was started: the
\* time Do is found to have taken is o.delay, or the time that has passed
\* meanwhile when that is longer
TokenReceive(g) ==
    /\ running[g].pc = "token"
    /\ \E o \in TokenOutcomes :
       \E took \in {Max(o.delay, now - running[g].start)} :
       \E ev \in {GenerateTokenResult(client, running[g].start, [o EXCEPT !.delay = took])} :
            IF ev.err # Nil
            THEN /\ Return(g, running[g].in,
                           RequestAfterEnsure(ev, running[g].in, TransportError))
                 /\ UNCHANGED <<client, createdAt, goos>>
            ELSE /\ ev.t <= MaxOverlapTime
                 /\ now' = ev.t
                 /\ running' = [running EXCEPT ![g].pc = "store", ![g].calls = ev.calls,
                                               ![g].start = 0]
                 /\ UNCHANGED <<client, createdAt, last, goos>>

\* the last two statements of generateOrRefreshToken: the expiry is set
\* and c.Token is written
Store(g) ==
    /\ running[g].pc = "store"
    /\ client' = StoreToken(client, ParsedToken(running[g].calls[1].answer.body.obj, now))
    /\ createdAt' = now
    /\ running' = [running EXCEPT ![g].pc = "build"]
    /\ UNCHANGED <<now, last, goos>>

\* Request from the parsing of the base URL to the start of the target
\* request: c.Token is read for the Authorization header, and the request
\* is handed to the transport; on a failure before that Request returns
Send(g) ==
    /\ running[g].pc = "build"
    /\ \E ev \in {[c |-> client, calls |-> running[g].calls, t |-> now, err |-> Nil]} :
            IF Issued(RequestAfterEnsure(ev, running[g].in, TransportError), "target")
            THEN /\ running' = [running EXCEPT ![g].pc = "wait", ![g].sent = ev]
                 /\ UNCHANGED <<now, last>>
            ELSE Return(g, running[g].in,
                        RequestAfterEnsure(ev, running[g].in, TransportError))
    /\ UNCHANGED <<client, createdAt, goos>>

\* HTTPClient.Do returns with the outcome so, the elapsed time is taken,
\* and Request returns.  Other goroutines have run since the request was
\* started: the time Do is found to have taken is so.delay, or the time
\* that has passed meanwhile when that is longer
Receive(g) ==
    /\ running[g].pc = "wait"
    /\ \E so \in SendOutcomes :
       \E took \in {Max(so.delay, now - running[g].sent.t)} :
            Return(g, running[g].in,
                   RequestAfterEnsure(running[g].sent, running[g].in,
                                      [so EXCEPT !.delay = took]))
    /\ UNCHANGED <<client, createdAt, goos>>

\* time passes while the calls run
Pass ==
    /\ now < MaxOverlapTime
    /\ Tick

NextConcurrent ==
    \/ \E g \in Goroutines : Check(g)
    \/ \E g \in Goroutines : TokenSend(g)
    \/ \E g \in Goroutines : TokenReceive(g)
    \/ \E g \in Goroutines : Store(g)
    \/ \E g \in Goroutines : Send(g)
    \/ \E g \in Goroutines : Receive(g)
    \/ Pass

SpecConcurrent == InitConcurrent /\ [][NextConcurrent]_vars

----------------------------------------------------------------------------
\* Properties

DispatchOps == {"Request", "Get", "Post", "Put", "Delete"}
ExchangeOps == {"GenerateToken", "RefreshToken"}

CallsTo(calls, to) == {i \in 1..Len(calls) : calls[i].to = to}

ClientCredentialsParams ==
    [grant_type |-> "client_credentials", scope |-> "am_application_scope,default"]
JwtBearerParams(assertion) ==
    [grant_type |-> "urn:ietf:params:oauth:grant-type:jwt-bearer", assertion |-> assertion]
RefreshParams(refreshToken) ==
    [grant_type |-> "refresh_token", refresh_token |-> refreshToken]

FreshGrant(call) ==
    call.body.grant_type \in
        {"client_credentials", "urn:ietf:params:oauth:grant-type:jwt-bearer"}

\* the held token is present and passes its validity check
HoldsValid == client.Token # Nil /\ IsValid(client.Token, now)

\* the token request can be built: base URL + "/token" is a well-formed URL
TokenURLWellFormed == "%" \notin Range(client.BaseURL)

\* the calls of a dispatch that found no usable token: one fresh-generation
\* call, first in order
OneFreshCallFirst(calls) ==
    /\ Cardinality(CallsTo(calls, "token")) = 1
    /\ calls[1].to = "token"
    /\ FreshGrant(calls[1])

\* C1 as stated: a dispatch that finds a valid token issues no
\* token-endpoint call; one that finds no token or an invalid one issues
\* exactly one fresh-generation call, before the target request.
C1_AsStated ==
    [][last'.op \in DispatchOps =>
        IF HoldsValid THEN CallsTo(last'.calls, "token") = {}
        ELSE OneFreshCallFirst(last'.calls)]_vars

\* C1 amended: a dispatch that finds a valid token issues no token-endpoint
\* call; one that finds no token or an invalid one issues exactly one
\* fresh-generation call, before the target request, when the token request
\* can be built; when it cannot (base URL + "/token" is no well-formed
\* URL), the dispatch issues no network call at all and returns an error.
C1_TokenCallIffNeeded ==
    [][last'.op \in DispatchOps =>
        IF HoldsValid THEN CallsTo(last'.calls, "token") = {}
        ELSE IF TokenURLWellFormed THEN OneFreshCallFirst(last'.calls)
        ELSE last'.calls = <<>> /\ last'.err # Nil /\ last'.ret = Nil]_vars

\* a dispatch generated a token and then sent the target request
C1_Witness ==
    /\ last.op \in DispatchOps
    /\ Len(last.calls) = 2
    /\ last.calls[1].to = "token"
    /\ last.calls[2].to = "target"

\* C2: a refresh_token grant is sent only by an explicit RefreshToken call;
\* the token calls of a dispatch are always fresh generation (client
\* credentials or JWT bearer), also when the expired token it found carries
\* a refresh value.
C2_RefreshOnlyExplicit ==
    /\ \A i \in CallsTo(last.calls, "token") :
        last.calls[i].body.grant_type = "refresh_token" => last.op = "RefreshToken"
    /\ last.op \in DispatchOps =>
        \A i \in CallsTo(last.calls, "token") : FreshGrant(last.calls[i])

\* a Request found an expired token with a refresh value, asked for a fresh
\* token and was refused, so the expired token is still held
C2_Witness ==
    /\ last.op = "Request"
    /\ client.Token # Nil
    /\ client.Token.RefreshToken # ""
    /\ ~IsValid(client.Token, now)
    /\ Len(last.calls) = 1
    /\ last.calls[1].to = "token"
    /\ FreshGrant(last.calls[1])
    /\ last.err # Nil

\* C3: GenerateToken and RefreshToken succeed only on an answer with status
\* exactly 200 and a decodable body; when they fail, the held token is the
\* token held before the call.
C3_SuccessOnly200FailureKeepsToken ==
    [][last'.op \in ExchangeOps =>
        /\ last'.err = Nil =>
            /\ Len(last'.calls) = 1
            /\ last'.calls[1].answer.kind = "response"
            /\ last'.calls[1].answer.status = 200
            /\ last'.calls[1].answer.body.json
        /\ last'.err # Nil => client'.Token = client.Token]_vars

\* a RefreshToken was answered 201 with a token in the body: it failed and
\* the token held before is still held
C3_Witness ==
    /\ last.op = "RefreshToken"
    /\ last.err # Nil
    /\ Len(last.calls) = 1
    /\ last.calls[1].answer.status = 201
    /\ last.calls[1].answer.body.json
    /\ client.Token # Nil
    /\ client.Token.Value = "T2"

\* the cause of a failed exchange, read off its log
ExchangeFailedOnStatus ==
    /\ Len(last.calls) = 1
    /\ last.calls[1].answer.kind = "response"
    /\ last.calls[1].answer.status # 200

\* C4 as stated: every failure of GenerateToken or RefreshToken matches
\* ErrTokenGeneration and never the configuration error.
C4_AsStated ==
    last.op \in ExchangeOps /\ last.err # Nil =>
        /\ ErrorsIs(last.err, ErrTokenGeneration)
        /\ ~ErrorsIs(last.err, ErrInvalidConfig)

\* C4, the classification the code implements: a failure of GenerateToken
\* or RefreshToken never matches the configuration error; a non-200 status
\* matches ErrUnexpectedStatus and not ErrTokenGeneration; every other
\* cause (request construction, transport, JSON decoding) matches
\* ErrTokenGeneration.
C4_FailureClassification ==
    last.op \in ExchangeOps /\ last.err # Nil =>
        /\ ~ErrorsIs(last.err, ErrInvalidConfig)
        /\ IF ExchangeFailedOnStatus
           THEN /\ ErrorsIs(last.err, ErrUnexpectedStatus)
                /\ ~ErrorsIs(last.err, ErrTokenGeneration)
           ELSE ErrorsIs(last.err, ErrTokenGeneration)

\* a GenerateToken was answered 401 and returned the unexpected-status error
C4_Witness ==
    /\ last.op = "GenerateToken"
    /\ ExchangeFailedOnStatus
    /\ last.calls[1].answer.status = 401
    /\ ErrorsIs(last.err, ErrUnexpectedStatus)

\* C5: the token call of RefreshToken carries the refresh_token grant with
\* the stored refresh value when a token with a non-empty refresh value is
\* held, assertion configured or not; otherwise it carries the parameters
\* GenerateToken sends.
C5_RefreshParameters ==
    [][last'.op = "RefreshToken" /\ last'.calls # <<>> =>
        IF client.Token # Nil /\ client.Token.RefreshToken # ""
        THEN last'.calls[1].body = RefreshParams(client.Token.RefreshToken)
        ELSE last'.calls[1].body = generateParameters(client, FALSE)]_vars

\* a RefreshToken of a client with an assertion sent the refresh grant
C5_Witness ==
    /\ last.op = "RefreshToken"
    /\ client.UserWebToken # ""
    /\ Len(last.calls) = 1
    /\ last.calls[1].body = RefreshParams("R1")

\* C6: the token call of GenerateToken and of the ensure-valid-token step
\* of a dispatch carries the JWT-bearer grant with the configured assertion
\* when an assertion is configured, and otherwise the client-credentials
\* grant with scope "am_application_scope,default"; never the refresh
\* grant, whatever token is held.
C6_FreshParameters ==
    last.op \in DispatchOps \cup {"GenerateToken"} =>
        \A i \in CallsTo(last.calls, "token") :
            /\ client.UserWebToken # "" =>
                last.calls[i].body = JwtBearerParams(client.UserWebToken)
            /\ client.UserWebToken = "" => last.calls[i].body = ClientCredentialsParams
            /\ last.calls[i].body.grant_type # "refresh_token"

\* a GenerateToken of a client with an assertion, holding a token with a
\* refresh value, sent the JWT-bearer grant (and failed, so that token is
\* still held)
C6_Witness ==
    /\ last.op = "GenerateToken"
    /\ last.err # Nil
    /\ client.Token # Nil
    /\ client.Token.RefreshToken # ""
    /\ Len(last.calls) = 1
    /\ last.calls[1].body = JwtBearerParams("jwt")

\* the instant L seconds after the clock read t
PlusSeconds(t, L) == Add(At(t), [giga |-> L.giga, unit |-> L.unit, nano |-> 0])

\* the clock reads t before the instant x
Before(t, x) == Less(At(t), x)

\* L > 0
Positive(L) == L.giga > 0 \/ (L.giga = 0 /\ L.unit > 0)

\* |L| <= 9223372036: L seconds are at most 2^63 - 1 nanoseconds, and
\* -L seconds too
InDurationRange(L) ==
    /\ L.giga < 9 \/ (L.giga = 9 /\ L.unit <= 223372036)
    /\ L.giga > -10 \/ (L.giga = -10 /\ L.unit >= 776627964)

\* C7 as stated: at every time from its creation on, a token of lifetime L
\* is valid exactly when now < createdAt + L; it is valid immediately after
\* creation and invalid once L seconds have elapsed.
C7_AsStated ==
    client # Nil /\ client.Token # Nil =>
        /\ IsValid(client.Token, now) <=>
                Before(now, PlusSeconds(createdAt, client.Token.ExpiresIn))
        /\ now = createdAt => IsValid(client.Token, now)
        /\ ~Before(now, PlusSeconds(createdAt, client.Token.ExpiresIn)) =>
                ~IsValid(client.Token, now)

\* C7 amended: at every time from its creation on, a token of lifetime L
\* with |L| <= 9223372036 is valid exactly when now < createdAt + L; a
\* token with L > 0 is valid immediately after creation (one with L <= 0
\* never is), and every token is invalid once L seconds have elapsed.
C7_ValidIffBeforeExpiry ==
    client # Nil /\ client.Token # Nil /\ InDurationRange(client.Token.ExpiresIn) =>
        /\ IsValid(client.Token, now) <=>
                Before(now, PlusSeconds(createdAt, client.Token.ExpiresIn))
        /\ now = createdAt =>
                (IsValid(client.Token, now) <=> Positive(client.Token.ExpiresIn))
        /\ ~Before(now, PlusSeconds(createdAt, client.Token.ExpiresIn)) =>
                ~IsValid(client.Token, now)

\* the clock reached the expiry of a token of positive lifetime
C7_Witness ==
    /\ client # Nil
    /\ client.Token # Nil
    /\ Positive(client.Token.ExpiresIn)
    /\ InDurationRange(client.Token.ExpiresIn)
    /\ At(now) = PlusSeconds(createdAt, client.Token.ExpiresIn)
    /\ last.op = "Tick"

\* a step that constructs no token: not NewToken, and no exchange that
\* succeeded
ConstructsNoToken ==
    /\ last'.op # "NewToken"
    /\ \A i \in CallsTo(last'.calls, "token") :
        ~(last'.calls[i].answer.kind = "response" /\ last'.calls[i].answer.status = 200
          /\ last'.calls[i].answer.body.json)

\* C8 as stated: the expiry of the held token is the time at which the
\* token was constructed plus its lifetime; a step that constructs no
\* token leaves the held token, and so its expiry, as it was.
C8_AsStated ==
    /\ [](client # Nil /\ client.Token # Nil =>
            client.Token.ExpireTime = PlusSeconds(createdAt, client.Token.ExpiresIn))
    /\ [][client # Nil /\ ConstructsNoToken => client'.Token = client.Token]_vars

\* C8 amended: the expiry of a held token whose lifetime L has
\* |L| <= 9223372036 is the time at which the token was constructed plus
\* L seconds, and the expiry of a token with a lifetime beyond that is
\* another instant; a step that constructs no token leaves the held token,
\* and so its expiry, as it was.
C8_ExpiryDerived ==
    /\ [](client # Nil /\ client.Token # Nil =>
            (InDurationRange(client.Token.ExpiresIn) <=>
                client.Token.ExpireTime = PlusSeconds(createdAt, client.Token.ExpiresIn)))
    /\ [][client # Nil /\ ConstructsNoToken => client'.Token = client.Token]_vars

\* a dispatch obtained a token of positive lifetime from an exchange that
\* took time, and sent the target request
C8_Witness ==
    /\ last.op \in DispatchOps
    /\ Len(last.calls) = 2
    /\ last.calls[1].to = "token"
    /\ last.calls[1].answer.delay > 0
    /\ Positive(client.Token.ExpiresIn)
    /\ InDurationRange(client.Token.ExpiresIn)
    /\ client.Token.ExpireTime = PlusSeconds(createdAt, client.Token.ExpiresIn)

\* the configuration NewRapidClient was called with lacks a required value
MissingConfig ==
    last.args.baseURL = <<>> \/ last.args.key = "" \/ last.args.secret = ""

\* s is t followed by nothing but separators, and t ends with none
StrippedOfSlashes(s, t) ==
    /\ Len(t) <= Len(s)
    /\ t = SubSeq(s, 1, Len(t))
    /\ \A i \in Len(t) + 1..Len(s) : s[i] = "/"
    /\ t = <<>> \/ t[Len(t)] # "/"

\* C9 as stated: with a required value missing NewRapidClient returns no
\* client and the configuration error, without a network call; with all
\* three present it returns a client with those values, no token, and no
\* network call.
C9_AsStated ==
    last.op = "NewRapidClient" =>
        /\ last.calls = <<>>
        /\ MissingConfig => last.ret = Nil /\ last.err = ErrInvalidConfig /\ client = Nil
        /\ ~MissingConfig =>
            /\ last.err = Nil
            /\ last.ret # Nil
            /\ client = last.ret
            /\ last.ret.BaseURL = last.args.baseURL
            /\ last.ret.Key = last.args.key
            /\ last.ret.Secret = last.args.secret
            /\ last.ret.Token = Nil

\* C9 amended: as stated, except that the client's base URL is the
\* configured base URL with its trailing slashes removed.
C9_ConstructionChecked ==
    last.op = "NewRapidClient" =>
        /\ last.calls = <<>>
        /\ MissingConfig => last.ret = Nil /\ last.err = ErrInvalidConfig /\ client = Nil
        /\ ~MissingConfig =>
            /\ last.err = Nil
            /\ last.ret # Nil
            /\ client = last.ret
            /\ StrippedOfSlashes(last.args.baseURL, last.ret.BaseURL)
            /\ last.ret.Key = last.args.key
            /\ last.ret.Secret = last.args.secret
            /\ last.ret.Token = Nil

\* NewRapidClient accepted a configuration whose base URL ends with a
\* slash and returned a client without it
C9_Witness ==
    /\ last.op = "NewRapidClient"
    /\ last.err = Nil
    /\ last.args.baseURL = <<"H", "/">>
    /\ client # Nil
    /\ client.BaseURL = <<"H">>
    /\ client.Token = Nil

\* C10: a dispatch returns either a Response and no error, or no Response
\* and an error; the Error field of a Response it returns is nil.
C10_ResponseXorError ==
    last.op \in DispatchOps =>
        /\ (last.ret # Nil /\ last.err = Nil) \/ (last.ret = Nil /\ last.err # Nil)
        /\ last.ret # Nil => last.ret.Error = Nil

\* a Request was answered 500 by the resource server: a Response, no error
C10_Witness ==
    /\ last.op = "Request"
    /\ last.ret # Nil
    /\ last.ret.Status = 500
    /\ last.err = Nil

\* the JSON object a successful exchange was answered with
AnsweredObject == last.calls[1].answer.body.obj

\* C11: after a successful GenerateToken or RefreshToken whose response
\* carries access_token T, token_type Y and expires_in E, the held token
\* has value T, type Y and lifetime E, and its authorization-header value
\* is "Y T" ("Bearer T" for type Bearer); when the response also carries
\* refresh_token R, the held token has refresh value R.
C11_TokenFromResponse ==
    last.op \in ExchangeOps /\ last.err = Nil =>
        /\ {"access_token", "token_type", "expires_in"} \subseteq DOMAIN AnsweredObject =>
            /\ client.Token.Value = AnsweredObject.access_token
            /\ client.Token.TokenType = AnsweredObject.token_type
            /\ client.Token.ExpiresIn = AnsweredObject.expires_in
            /\ GetAuthorizationHeader(client.Token) =
                    <<AnsweredObject.token_type, " ", AnsweredObject.access_token>>
            /\ AnsweredObject.token_type = "Bearer" =>
                    GetAuthorizationHeader(client.Token) =
                        <<"Bearer", " ", AnsweredObject.access_token>>
        /\ "refresh_token" \in DOMAIN AnsweredObject =>
            client.Token.RefreshToken = AnsweredObject.refresh_token

\* a RefreshToken was answered with T1, Bearer, a positive lifetime and R1,
\* and the held token reads "Bearer T1" with refresh value R1
C11_Witness ==
    /\ last.op = "RefreshToken"
    /\ last.err = Nil
    /\ AnsweredObject.access_token = "T1"
    /\ Positive(AnsweredObject.expires_in)
    /\ client.Token.Value = "T1"
    /\ client.Token.RefreshToken = "R1"
    /\ GetAuthorizationHeader(client.Token) = <<"Bearer", " ", "T1">>

\* C12 as stated: whenever a dispatch sends the target request, its
\* ensure-valid-token step completed with a token that is present and valid
\* at the moment the step completed (at the entry of the call when the
\* held token was found valid, at the construction of the new token when
\* one was generated), whatever the token endpoint answered.
C12_AsStated ==
    [][last'.op \in DispatchOps /\ CallsTo(last'.calls, "target") # {} =>
        /\ client'.Token # Nil
        /\ IsValid(client'.Token,
                   IF CallsTo(last'.calls, "token") # {} THEN createdAt' ELSE now)]_vars

\* the error generateOrRefreshToken returns for a call answered with a
\* failure
FailureOf(answer) ==
    IF answer.kind = "transport" THEN TransportFailure
    ELSE IF answer.status # 200 THEN StatusFailure
    ELSE DecodeFailure

\* the answer lets the exchange succeed
Granted(answer) == answer.kind = "response" /\ answer.status = 200 /\ answer.body.json

\* C13: a dispatch issues at most one token-endpoint call and at most one
\* target request; when the token generation of its ensure-valid-token
\* step fails (the token request cannot be built, or its call fails), the
\* dispatch returns no Response and an error wrapping that failure, and
\* sends no target request; GenerateToken and RefreshToken issue at most
\* one token-endpoint call, and return the failure of that call.
C13_NoRetryNoSwallow ==
    [][/\ last'.op \in DispatchOps =>
            /\ Cardinality(CallsTo(last'.calls, "token")) <= 1
            /\ Cardinality(CallsTo(last'.calls, "target")) <= 1
            /\ ~HoldsValid /\ ~TokenURLWellFormed =>
                /\ last'.calls = <<>>
                /\ last'.ret = Nil
                /\ last'.err = Wrap("error ensuring valid token", ConstructFailure)
            /\ \A i \in CallsTo(last'.calls, "token") :
                ~Granted(last'.calls[i].answer) =>
                    /\ CallsTo(last'.calls, "target") = {}
                    /\ last'.ret = Nil
                    /\ last'.err = Wrap("error ensuring valid token",
                                        FailureOf(last'.calls[i].answer))
       /\ last'.op \in ExchangeOps =>
            /\ Len(last'.calls) <= 1
            /\ CallsTo(last'.calls, "target") = {}
            /\ \A i \in CallsTo(last'.calls, "token") :
                ~Granted(last'.calls[i].answer) =>
                    last'.err = FailureOf(last'.calls[i].answer)]_vars

\* a Request whose token call the transport failed: one call, no target
\* request, and the error wraps the failure of the exchange
C13_Witness ==
    /\ last.op = "Request"
    /\ Len(last.calls) = 1
    /\ last.calls[1].to = "token"
    /\ last.calls[1].answer.kind = "transport"
    /\ last.ret = Nil
    /\ last.err = Wrap("error ensuring valid token", TransportFailure)
    /\ ErrorsIs(last.err, ErrTokenGeneration)

RECURSIVE TrimLeft(_, _)
\* s without its leading cut
TrimLeft(s, cut) == IF s # <<>> /\ s[1] = cut THEN TrimLeft(Tail(s), cut) ELSE s

\* no separator is followed by a separator
NoDoubledSeparator(url) == \A i \in 1..Len(url) - 1 : ~(url[i] = "/" /\ url[i + 1] = "/")

\* the URL of a request for path and query under a base without trailing
\* slash
ExpectedURL(base, in) ==
    base \o <<"/">> \o TrimLeft(in.urlPath, "/")
         \o (IF in.params # <<>> THEN <<"?">> \o in.params ELSE <<>>)

\* C14 as stated: the URL of every target request is the base URL of the
\* client, one separator, the request path without leading separators, and
\* the encoded query if any: no separator is doubled; and the base URL of
\* the client is the configured base URL without its trailing slashes, so
\* that a request for "/w" or "w" under "H" or "H/" goes to "H/w".
C14_AsStated ==
    /\ [](last.op \in DispatchOps =>
            \A i \in CallsTo(last.calls, "target") :
                /\ last.calls[i].url = ExpectedURL(client.BaseURL, last.args)
                /\ NoDoubledSeparator(last.calls[i].url))
    /\ [][last.op = "configure" =>
            StrippedOfSlashes(last.args.baseURL, client'.BaseURL)]_vars

\* the headers of the target request of the last dispatch
TargetHeaders(i) == last.calls[i].headers

\* C15: every target request carries Accept: application/json, an
\* Authorization header "<type> <value>" of the held token, Content-Type:
\* application/json exactly when a body was given, X-Authorization with
\* the configured value exactly when one is configured, and no other
\* header.
C15_TargetHeaders ==
    last.op \in DispatchOps =>
        \A i \in CallsTo(last.calls, "target") :
            /\ DOMAIN TargetHeaders(i) \subseteq
                    {"Accept", "Authorization", "Content-Type", "X-Authorization"}
            /\ "Accept" \in DOMAIN TargetHeaders(i)
            /\ TargetHeaders(i)["Accept"] = "application/json"
            /\ "Authorization" \in DOMAIN TargetHeaders(i)
            /\ TargetHeaders(i)["Authorization"] =
                    <<client.Token.TokenType, " ", client.Token.Value>>
            /\ "Content-Type" \in DOMAIN TargetHeaders(i) <=> last.args.body # Nil
            /\ last.args.body # Nil => TargetHeaders(i)["Content-Type"] = "application/json"
            /\ "X-Authorization" \in DOMAIN TargetHeaders(i) <=> client.XAuthorization # ""
            /\ client.XAuthorization # "" =>
                    TargetHeaders(i)["X-Authorization"] = client.XAuthorization

\* a Post with a body on a client with an extra authorization value,
\* holding a token of type MAC, sent all four headers
C15_Witness ==
    /\ last.op = "Post"
    /\ last.args.body # Nil
    /\ client.XAuthorization = "x-auth"
    /\ Len(last.calls) = 2
    /\ DOMAIN last.calls[2].headers =
            {"Accept", "Authorization", "Content-Type", "X-Authorization"}
    /\ last.calls[2].headers["Authorization"] = <<"MAC", " ", "T2">>

\* the token a token response describes, constructed at time t: a member
\* the response omits is empty
TokenOfResponse(obj, t) ==
    [Value |-> obj.access_token, ExpiresIn |-> obj.expires_in,
     TokenType |-> obj.token_type,
     RefreshToken |-> IF "refresh_token" \in DOMAIN obj THEN obj.refresh_token ELSE "",
     ExpireTime |-> PlusSeconds(t, obj.expires_in)]

\* C16: after a successful GenerateToken or RefreshToken every field of
\* the held token comes from the response and the clock, none from the
\* token held before: when the response omits refresh_token the refresh
\* value held afterwards is empty; and a RefreshToken called while the
\* held token has an empty refresh value sends a fresh-generation grant.
C16_ReplacedWholesale ==
    [][last'.op \in ExchangeOps =>
        /\ last'.err = Nil =>
            client'.Token = TokenOfResponse(last'.calls[1].answer.body.obj, now')
        /\ /\ last'.op = "RefreshToken"
           /\ last'.calls # <<>>
           /\ client.Token # Nil
           /\ client.Token.RefreshToken = ""
           => FreshGrant(last'.calls[1])]_vars

\* a RefreshToken sent the refresh value R1 and was answered with a token
\* without refresh_token: the token held now has an empty refresh value
C16_Witness ==
    /\ last.op = "RefreshToken"
    /\ last.err = Nil
    /\ last.calls[1].body = RefreshParams("R1")
    /\ "refresh_token" \notin DOMAIN last.calls[1].answer.body.obj
    /\ client.Token.Value = "T2"
    /\ client.Token.RefreshToken = ""

\* the calls goroutine g has issued in the step just taken: those of its
\* frame, or those of the call that has just returned
CallsAfterStep(g) == IF running'[g].pc = "idle" THEN last'.calls ELSE running'[g].calls

\* C17: nothing makes a Request call wait for, or look at, another one in
\* progress.  A call can always take its next step; its check tests the
\* held token alone, at the moment of the check; a call whose check failed
\* issues one fresh-generation call of its own, also when another call has
\* stored a token in between; and each call that was granted a token
\* writes it over whatever is held, so the last writer's token stays.
C17_NoMutualExclusion ==
    /\ [](\A g \in Goroutines :
            /\ running[g].pc = "idle" => ENABLED Check(g)
            /\ running[g].pc = "exchange" => ENABLED TokenSend(g)
            /\ running[g].pc = "token" => ENABLED TokenReceive(g)
            /\ running[g].pc = "store" => ENABLED Store(g))
    /\ [][\A g \in Goroutines :
            /\ running[g].pc = "idle" /\ running'[g].pc # "idle" =>
                (running'[g].pc = "exchange" <=> ~HoldsValid)
            /\ running[g].pc = "token" /\ running'[g].pc # "token" =>
                /\ Len(CallsAfterStep(g)) = 1
                /\ CallsAfterStep(g)[1].to = "token"
                /\ FreshGrant(CallsAfterStep(g)[1])
            /\ running[g].pc = "store" /\ running'[g].pc # "store" =>
                client'.Token = TokenOfResponse(running[g].calls[1].answer.body.obj, now)]_vars

\* no time has passed since the client was constructed without a token;
\* both calls have issued a fresh-generation call and stored what they
\* were granted, g1 a token T1 that is still valid, g2 a token T2; T2 is
\* held: both checks found no token, and g2 wrote last
C17_Witness ==
    /\ now = 0
    /\ \A g \in Goroutines :
        /\ running[g].pc = "build"
        /\ Len(running[g].calls) = 1
        /\ FreshGrant(running[g].calls[1])
    /\ running["g1"].calls[1].answer.body.obj.access_token = "T1"
    /\ Positive(running["g1"].calls[1].answer.body.obj.expires_in)
    /\ running["g2"].calls[1].answer.body.obj.access_token = "T2"
    /\ client.Token.Value = "T2"

\* C18: a client that holds a token holds a token after every step,
\* whether the step succeeds or fails; and whenever a dispatch has built
\* its target request, a token is held, the one whose header the request
\* carries.
C18_TokenNeverAbsentAgain ==
    /\ [][client # Nil /\ client.Token # Nil => client'.Token # Nil]_vars
    /\ [](last.op \in DispatchOps =>
            \A i \in CallsTo(last.calls, "target") :
                /\ client.Token # Nil
                /\ last.calls[i].headers["Authorization"] =
                        GetAuthorizationHeader(client.Token))

\* a Get found the installed token T0 expired and its token call failed in
\* the transport: T0 is still held
C18_Witness ==
    /\ last.op = "Get"
    /\ Len(last.calls) = 1
    /\ last.calls[1].to = "token"
    /\ last.calls[1].answer.kind = "transport"
    /\ client.Token # Nil
    /\ client.Token.Value = "T0"

\* C19: a dispatch called while the held token is present and valid leaves
\* the client as it was (token, base URL, id, secret, assertion, extra
\* authorization value), whether it returns a Response or fails at URL
\* parsing, body serialization, request construction or transport.
C19_ValidTokenFrame ==
    [][last'.op \in DispatchOps /\ HoldsValid => client' = client]_vars

\* a Request on a client holding a valid token failed at the parsing of
\* the base URL, without a network call
C19_Witness ==
    /\ last.op = "Request"
    /\ last.err = Wrap("error parsing base URL", Leaf("url.Parse"))
    /\ last.calls = <<>>
    /\ client.Token # Nil
    /\ client.BaseURL = <<"H", "%">>

\* the errors of Request that come after the ensure-valid-token step
MarshalFailure == Wrap("error marshaling request body", Leaf("marshal"))
SendFailure == Wrap("error sending request", Leaf("Do"))

\* C20: a dispatch called without a valid token that fails on the
\* serialization of its body has issued one network call, the token call,
\* and one that fails on the transport of its target request has issued
\* the token call and then the target request; in both cases the token
\* that call was granted is the token held afterwards.
C20_TokenCallFirstAndKept ==
    [][last'.op \in DispatchOps /\ ~HoldsValid
       /\ last'.err \in {MarshalFailure, SendFailure} =>
        /\ last'.calls[1].to = "token"
        /\ Granted(last'.calls[1].answer)
        /\ client'.Token = TokenOfResponse(last'.calls[1].answer.body.obj, createdAt')
        /\ last'.err = MarshalFailure => Len(last'.calls) = 1
        /\ last'.err = SendFailure =>
            /\ Len(last'.calls) = 2
            /\ last'.calls[2].to = "target"
            /\ last'.calls[2].answer.kind = "transport"]_vars

\* a Put on a client without a token failed on the serialization of its
\* body after the token call: the token T1 it was granted is held
C20_Witness ==
    /\ last.op = "Put"
    /\ last.err = MarshalFailure
    /\ Len(last.calls) = 1
    /\ last.calls[1].to = "token"
    /\ last.calls[1].answer.body.obj.access_token = "T1"
    /\ client.Token.Value = "T1"
    /\ client.Token.ExpireTime = PlusSeconds(createdAt, client.Token.ExpiresIn)

====
